---- MODULE Spec2Model ----
(***************************************************************************)
(* A model of scripts/whisperx-service.py: the /transcribe handler (temp   *)
(* directory, yt-dlp subprocess, file checks, lazy engine singleton,       *)
(* segment shaping, except/finally), /health, and the startup hook with    *)
(* its registry heartbeat.                                                 *)
(*                                                                         *)
(* Worker processes each own an asyncio event loop and a module global     *)
(* _model; they share the /tmp filesystem.  A handler is an `async def`    *)
(* without any await, so a loop runs one handler at a time, to completion. *)
(* Python strings are sequences of characters; an optional value is the    *)
(* empty sequence (None) or a one-element sequence.                        *)
(***************************************************************************)
EXTENDS Integers, Sequences, FiniteSets, TLC

VARIABLES _model, constructed, loop, started, reg, req, obs, fs

vars == <<_model, constructed, loop, started, reg, req, obs, fs>>

----------------------------------------------------------------------------
(* Program constants *)

VideoIdLen == 11
StderrLimit == 300
StdoutLimit == 200
MinAudioBytes == 1000

(* Bounds of the model *)

NumSlots == 2
MaxSegs == 2
MaxWords == 2

----------------------------------------------------------------------------
(* Values *)

None == <<>>
Some(x) == <<x>>

Procs == {"w1", "w2"}
Slots == 1..NumSlots
DirNames == {"whisperx-a", "whisperx-b", "whisperx-c"}

Chars == {" ", "a"}
IsSpace(c) == c = " "

SeqsUpTo(S, n) == UNION {[1..k -> S] : k \in 0..n}
Text(n) == [i \in 1..n |-> i]
Min(a, b) == IF a < b THEN a ELSE b

----------------------------------------------------------------------------
(* Pure helpers of the handler *)

\* s[:n]
Slice(s, n) == SubSeq(s, 1, Min(Len(s), n))

\* the error stream without the slice
StderrWhole(s) == s

\* r.stderr[:300]
StderrPrefix(s) == Slice(s, StderrLimit)

\* r.stdout[:200]
StdoutPrefix(s) == Slice(s, StdoutLimit)

\* a length test that lets short identifiers through
InvalidOnlyLong(v) == Len(v) = 0 \/ Len(v) > VideoIdLen

\* not vid or len(vid) != 11
Invalid(v) == Len(v) = 0 \/ Len(v) # VideoIdLen

\* the size test off by one
TooSmallOffByOne(fsize) == fsize < MinAudioBytes - 1

\* fsize < 1000
TooSmall(fsize) == fsize < MinAudioBytes

RECURSIVE LStrip(_)
LStrip(s) == IF s = <<>> THEN s
             ELSE IF IsSpace(Head(s)) THEN LStrip(Tail(s)) ELSE s

RECURSIVE RStrip(_)
RStrip(s) == IF s = <<>> THEN s
             ELSE IF IsSpace(s[Len(s)]) THEN RStrip(SubSeq(s, 1, Len(s) - 1)) ELSE s

\* str.strip()
Strip(s) == RStrip(LStrip(s))

\* the filter without the strip: if w.word
KeepWordUntrimmed(w) == w # <<>>

\* the filter of the comprehension: if w.word.strip()
KeepWord(w) == Strip(w) # <<>>

\* [{"text": w.word.strip(), ...} for w in s.words if w.word.strip()]
RECURSIVE ShapeWords(_)
ShapeWords(ws) ==
    IF ws = <<>> THEN <<>>
    ELSE IF KeepWord(Head(ws))
         THEN <<[text |-> Strip(Head(ws))]>> \o ShapeWords(Tail(ws))
         ELSE ShapeWords(Tail(ws))

\* if s.words:  (None and [] are both falsy)
Truthy(opt) == opt # None /\ opt[1] # <<>>

\* the body of `for s in segs_gen`
ShapeSegment(s) ==
    IF Truthy(s.words)
    THEN [text |-> Strip(s.text), words |-> ShapeWords(s.words[1])]
    ELSE [text |-> Strip(s.text)]

----------------------------------------------------------------------------
(* The filesystem under /tmp: fs[d] is None or Some(listing), a listing    *)
(* maps file names <<stem, ext>> to byte sizes.                            *)

EmptyListing == [n \in {} |-> 0]

Exists(f, d) == f[d] # None
Listing(f, d) == IF Exists(f, d) THEN f[d][1] ELSE EmptyListing

\* a directory name chosen without the existence test
mkdtempAnyName(f) == DirNames

\* tempfile.mkdtemp: a name that does not exist yet
mkdtemp(f) == {d \in DirNames : ~Exists(f, d)}

\* what the yt-dlp child leaves in the directory
Written(f, d, files) ==
    [f EXCEPT ![d] = Some([n \in DOMAIN files \cup DOMAIN Listing(f, d) |->
                              IF n \in DOMAIN files THEN files[n]
                              ELSE Listing(f, d)[n]])]

\* glob.glob(os.path.join(tmpdir, "audio.*"))
glob(f, d) == {n \in DOMAIN Listing(f, d) : n[1] = "audio"}

\* os.path.getsize
getsize(f, d, n) == Listing(f, d)[n]

\* shutil.rmtree(tmpdir, ignore_errors=True)
rmtree(f, d) == [f EXCEPT ![d] = None]

\* no cleanup
FinallyNothing(f, d) == f

\* the finally block
Finally(f, d) == rmtree(f, d)

----------------------------------------------------------------------------
(* Exceptions and responses *)

HTTPException(status, msg, arg) ==
    [type |-> "HTTPException", status |-> status, msg |-> msg, arg |-> arg]

Exception(msg) ==
    [type |-> "Exception", status |-> 0, msg |-> msg, arg |-> <<>>]

\* without `except HTTPException: raise`
ExceptMapAll(e) == [status |-> 500, msg |-> e.msg, arg |-> e.arg]


\* except HTTPException: raise / except Exception as e: raise HTTPException(500, str(e))
ExceptMap(e) ==
    IF e.type = "HTTPException"
    THEN [status |-> e.status, msg |-> e.msg, arg |-> e.arg]
    ELSE [status |-> 500, msg |-> e.msg, arg |-> e.arg]

NoResponse == [status |-> 0, msg |-> "", arg |-> <<>>]

\* get_model without the None test
NeedsLoadAlways(m) == TRUE

\* if _model is None
NeedsLoad(m) == m = None

\* handlers run in a thread pool (a plain `def` endpoint)
CanRunThreaded(p) == TRUE


\* the event loop runs one coroutine at a time: no await in the handlers
CanRun(p) == loop[p] = "free"

\* the process has not been ended by an exception at start
Alive(p) == started[p] # "failed"

\* the server accepts requests once the startup hook has returned ("done"),
\* or from the start when it runs the app without the lifespan protocol
\* ("off"; a process started by __main__ always runs the hook)
Accepting(p) == started[p] \in {"no", "off", "done"}

----------------------------------------------------------------------------
(* State *)

NoGen == [segs |-> <<>>, boom |-> FALSE, duration |-> 0]

InitReq == [pc |-> "idle", proc |-> "w1", vid |-> <<>>, tmpdir |-> None,
            audio_path |-> None, gen |-> NoGen, segments |-> <<>>,
            response |-> NoResponse]

\* history of one request, kept to state the properties
InitObs == [arrivedUnloaded |-> FALSE, dirCreated |-> FALSE,
            downloaderStarted |-> FALSE, engineInvoked |-> FALSE,
            sawNone |-> FALSE, built |-> FALSE,
            dl |-> None, handed |-> None, raised |-> None, engineOut |-> None,
            beside |-> {}]

InitReg == [env |-> None, post |-> "none", sent |-> FALSE]

Init ==
    /\ _model = [p \in Procs |-> None]
    /\ constructed = [p \in Procs |-> 0]
    /\ loop = [p \in Procs |-> "free"]
    /\ started = [p \in Procs |-> "no"]
    /\ reg = [p \in Procs |-> InitReg]
    /\ req = [r \in Slots |-> InitReq]
    /\ obs = [r \in Slots |-> InitObs]
    /\ fs = [d \in DirNames |-> None]

----------------------------------------------------------------------------
(* POST /transcribe *)

Proc(r) == req[r].proc
Dir(r) == req[r].tmpdir[1]

\* between mkdtemp and the end of the finally block
InFlight(r) == req[r].pc \notin {"idle", "pending", "done"}

\* history: the directories of the other requests in flight
Beside(r) == {req[x].tmpdir[1] : x \in {y \in Slots \ {r} : InFlight(y)}}

\* a response is sent as soon as its handler has ended: nothing else happens
\* while a finished request waits in its slot (Respond only frees the slot)
Sent == \A x \in Slots : req[x].pc # "done"

\* an exception leaves the try block: except clauses, then finally
\* (f is the filesystem at the moment of the raise)
Raise(r, e, f, ob) ==
    /\ req' = [req EXCEPT ![r] = [@ EXCEPT !.pc = "done",
                                           !.response = ExceptMap(e),
                                           !.tmpdir = None,
                                           !.audio_path = None,
                                           !.gen = NoGen,
                                           !.segments = <<>>]]
    /\ obs' = [obs EXCEPT ![r] = [ob EXCEPT !.raised = Some(e), !.beside = Beside(r)]]
    /\ fs' = Finally(f, Dir(r))
    /\ loop' = [loop EXCEPT ![Proc(r)] = "free"]

\* the server accepts a request and schedules its handler on the loop
\* (the request takes the lowest free slot)
Arrive(r, p, v) ==
    /\ Sent /\ req[r].pc = "idle"
    /\ \A x \in Slots : x < r => req[x].pc # "idle"
    /\ Accepting(p)
    /\ started' = [started EXCEPT ![p] = IF @ = "no" THEN "off" ELSE @]
    /\ req' = [req EXCEPT ![r] = [InitReq EXCEPT !.pc = "pending",
                                                 !.proc = p, !.vid = v]]
    /\ obs' = [obs EXCEPT ![r] =
                  [InitObs EXCEPT !.arrivedUnloaded = NeedsLoad(_model[p])]]
    /\ UNCHANGED <<_model, constructed, loop, reg, fs>>

\* raise HTTPException(400, "Invalid video_id")
TranscribeInvalid(r) ==
    /\ Sent /\ req[r].pc = "pending"
    /\ Alive(Proc(r)) /\ CanRun(Proc(r))
    /\ Invalid(req[r].vid)
    /\ req' = [req EXCEPT ![r] = [@ EXCEPT !.pc = "done",
                  !.response = [status |-> 400, msg |-> "Invalid video_id",
                                arg |-> <<>>]]]
    /\ UNCHANGED <<_model, constructed, loop, started, reg, obs, fs>>

\* tmpdir = tempfile.mkdtemp(dir="/tmp", prefix="whisperx-")
TranscribeMkdtemp(r, d) ==
    /\ Sent /\ req[r].pc = "pending"
    /\ Alive(Proc(r)) /\ CanRun(Proc(r))
    /\ ~Invalid(req[r].vid)
    /\ d \in mkdtemp(fs)
    /\ fs' = [fs EXCEPT ![d] = Some(EmptyListing)]
    /\ req' = [req EXCEPT ![r] = [@ EXCEPT !.pc = "download", !.tmpdir = Some(d)]]
    /\ obs' = [obs EXCEPT ![r].dirCreated = TRUE]
    /\ loop' = [loop EXCEPT ![Proc(r)] = "handler"]
    /\ UNCHANGED <<_model, constructed, started, reg>>

\* history: the downloader was started and ended as o
Ran(r, o) == [obs[r] EXCEPT !.downloaderStarted = TRUE, !.dl = Some(o)]

\* subprocess.run(..., timeout=120) raises TimeoutExpired
DownloadTimeout(r, outcomes) ==
    /\ Sent /\ req[r].pc = "download"
    /\ \E o \in outcomes :
          /\ o.timeout
          /\ Raise(r, Exception("TimeoutExpired"), Written(fs, Dir(r), o.files), Ran(r, o))
    /\ UNCHANGED <<_model, constructed, started, reg>>

\* if r.returncode != 0: raise HTTPException(502, ...)
DownloadFailed(r, outcomes) ==
    /\ Sent /\ req[r].pc = "download"
    /\ \E o \in outcomes :
          LET e == HTTPException(502, "Audio download failed: ", StderrPrefix(o.stderr)) IN
          /\ ~o.timeout
          /\ o.returncode # 0
          /\ Raise(r, e, Written(fs, Dir(r), o.files), Ran(r, o))
    /\ UNCHANGED <<_model, constructed, started, reg>>

\* if not files: raise HTTPException(502, ...)
NoAudioFile(r, outcomes) ==
    /\ Sent /\ req[r].pc = "download"
    /\ \E o \in outcomes :
          LET f1 == Written(fs, Dir(r), o.files)
              e == HTTPException(502, "No audio file found. stdout: ",
                                 StdoutPrefix(o.stdout)) IN
          /\ ~o.timeout
          /\ o.returncode = 0
          /\ glob(f1, Dir(r)) = {}
          /\ Raise(r, e, f1, Ran(r, o))
    /\ UNCHANGED <<_model, constructed, started, reg>>

\* audio_path = files[0]; if fsize < 1000: raise HTTPException(502, ...)
AudioTooSmall(r, outcomes) ==
    /\ Sent /\ req[r].pc = "download"
    /\ \E o \in outcomes :
          LET f1 == Written(fs, Dir(r), o.files) IN
          /\ ~o.timeout
          /\ o.returncode = 0
          /\ \E n \in glob(f1, Dir(r)) :
                LET fsize == getsize(f1, Dir(r), n)
                    e == HTTPException(502, "Audio too small (bytes)", <<fsize>>) IN
                /\ TooSmall(fsize)
                /\ Raise(r, e, f1, Ran(r, o))
    /\ UNCHANGED <<_model, constructed, started, reg>>

\* the download and the three checks pass
DownloadOk(r, outcomes) ==
    /\ Sent /\ req[r].pc = "download"
    /\ \E o \in outcomes :
          LET f1 == Written(fs, Dir(r), o.files) IN
          /\ ~o.timeout
          /\ o.returncode = 0
          /\ \E n \in glob(f1, Dir(r)) :
                /\ ~TooSmall(getsize(f1, Dir(r), n))
                /\ req' = [req EXCEPT ![r] = [@ EXCEPT !.pc = "get_model",
                                                       !.audio_path = Some(n)]]
          /\ fs' = f1
          /\ obs' = [obs EXCEPT ![r] = Ran(r, o)]
    /\ UNCHANGED <<_model, constructed, loop, started, reg>>

----------------------------------------------------------------------------
(* get_model, reached from the handler at line 58 *)

\* if _model is None: false, return _model
GetModelCached(r) ==
    /\ Sent /\ req[r].pc = "get_model"
    /\ ~NeedsLoad(_model[Proc(r)])
    /\ req' = [req EXCEPT ![r].pc = "call"]
    /\ UNCHANGED <<_model, constructed, loop, started, reg, obs, fs>>

\* if _model is None: true
GetModelObserve(r) ==
    /\ Sent /\ req[r].pc = "get_model"
    /\ NeedsLoad(_model[Proc(r)])
    /\ req' = [req EXCEPT ![r].pc = "load"]
    /\ obs' = [obs EXCEPT ![r].sawNone = TRUE]
    /\ UNCHANGED <<_model, constructed, loop, started, reg, fs>>

\* _model = WhisperModel("large-v3", device="cuda", compute_type="float16")
GetModelLoad(r) ==
    /\ Sent /\ req[r].pc = "load"
    /\ _model' = [_model EXCEPT ![Proc(r)] = Some(constructed[Proc(r)] + 1)]
    /\ constructed' = [constructed EXCEPT ![Proc(r)] = @ + 1]
    /\ req' = [req EXCEPT ![r].pc = "call"]
    /\ obs' = [obs EXCEPT ![r].built = TRUE]
    /\ UNCHANGED <<loop, started, reg, fs>>

\* the import or the constructor raises
GetModelLoadFails(r) ==
    /\ Sent /\ req[r].pc = "load"
    /\ Raise(r, Exception("model load failed"), fs, obs[r])
    /\ UNCHANGED <<_model, constructed, started, reg>>

----------------------------------------------------------------------------
(* model.transcribe and the segment stream *)

\* history: what the engine was handed, as the filesystem has it at the call
Handed(r) ==
    [obs[r] EXCEPT !.engineInvoked = TRUE,
                   !.handed = Some([path |-> req[r].audio_path[1],
                                    exists |-> req[r].audio_path[1] \in DOMAIN Listing(fs, Dir(r)),
                                    size |-> IF req[r].audio_path[1] \in DOMAIN Listing(fs, Dir(r))
                                             THEN getsize(fs, Dir(r), req[r].audio_path[1])
                                             ELSE 0])]

\* segs_gen, info = model.transcribe(audio_path, ...)
CallEngine(r, results) ==
    /\ Sent /\ req[r].pc = "call"
    /\ \E g \in results :
          /\ ~g.raises
          /\ req' = [req EXCEPT ![r] = [@ EXCEPT !.pc = "stream",
                        !.gen = [segs |-> g.segs, boom |-> g.boom,
                                 duration |-> g.duration]]]
          /\ obs' = [obs EXCEPT ![r] = [Handed(r) EXCEPT !.engineOut = Some(g.segs)]]
    /\ UNCHANGED <<_model, constructed, loop, started, reg, fs>>

\* model.transcribe raises
CallEngineRaises(r, results) ==
    /\ Sent /\ req[r].pc = "call"
    /\ \E g \in results :
          /\ g.raises
          /\ Raise(r, Exception("transcribe failed"), fs, Handed(r))
    /\ UNCHANGED <<_model, constructed, started, reg>>

\* one iteration of `for s in segs_gen`
NextSegment(r) ==
    /\ Sent /\ req[r].pc = "stream"
    /\ req[r].gen.segs # <<>>
    /\ req' = [req EXCEPT ![r] = [@ EXCEPT
                  !.segments = Append(@, ShapeSegment(Head(req[r].gen.segs))),
                  !.gen = [@ EXCEPT !.segs = Tail(@)]]]
    /\ UNCHANGED <<_model, constructed, loop, started, reg, obs, fs>>

\* the generator raises instead of yielding or ending
StreamRaises(r) ==
    /\ Sent /\ req[r].pc = "stream"
    /\ req[r].gen.segs = <<>>
    /\ req[r].gen.boom
    /\ Raise(r, Exception("decoding failed"), fs, obs[r])
    /\ UNCHANGED <<_model, constructed, started, reg>>

\* return {"segments": segments, "duration": info.duration}, then finally
ReturnOk(r) ==
    /\ Sent /\ req[r].pc = "stream"
    /\ req[r].gen.segs = <<>>
    /\ ~req[r].gen.boom
    /\ req' = [req EXCEPT ![r] = [@ EXCEPT !.pc = "done",
                  !.response = [status |-> 200, segments |-> req[r].segments,
                                duration |-> req[r].gen.duration],
                  !.tmpdir = None,
                  !.audio_path = None, !.gen = NoGen, !.segments = <<>>]]
    /\ obs' = [obs EXCEPT ![r].beside = Beside(r)]
    /\ fs' = Finally(fs, Dir(r))
    /\ loop' = [loop EXCEPT ![Proc(r)] = "free"]
    /\ UNCHANGED <<_model, constructed, started, reg>>

\* the response is sent; the slot serves the next request
Respond(r) ==
    /\ req[r].pc = "done"
    /\ req' = [req EXCEPT ![r] = InitReq]
    /\ obs' = [obs EXCEPT ![r] = InitObs]
    /\ UNCHANGED <<_model, constructed, loop, started, reg, fs>>

----------------------------------------------------------------------------
(* GET /health *)

\* return {"status": "ok", "model": "large-v3"}: reads and writes no state
HealthBody == [status |-> "ok", model |-> "large-v3"]

health(p) ==
    /\ Sent /\ Accepting(p) /\ CanRun(p)
    /\ HealthBody.status = "ok"
    /\ UNCHANGED vars

----------------------------------------------------------------------------
(* startup: get_model() then await register_service() *)

\* not url or not key  (None and "" are both falsy)
Falsy(v) == v = None \/ v[1] = <<>>

\* register_service without the try/except around urlopen
register_service_uncaught(url, key, post) ==
    IF Falsy(url) \/ Falsy(key)
    THEN [sent |-> FALSE, raised |-> FALSE]
    ELSE [sent |-> TRUE, raised |-> post # "ok"]


\* register_service: what it sends and whether an exception leaves it
register_service(url, key, post) ==
    IF Falsy(url) \/ Falsy(key)
    THEN [sent |-> FALSE, raised |-> FALSE]
    ELSE [sent |-> TRUE, raised |-> FALSE]

\* get_model() called outside a handler: constructs when the handle is None
GetModelAt(p, ok) ==
    /\ _model' = IF NeedsLoad(_model[p]) /\ ok
                 THEN [_model EXCEPT ![p] = Some(constructed[p] + 1)] ELSE _model
    /\ constructed' = IF NeedsLoad(_model[p]) /\ ok
                      THEN [constructed EXCEPT ![p] = @ + 1] ELSE constructed

\* the import or the constructor raises: the exception ends the process
LoadRaises(p, ok) == NeedsLoad(_model[p]) /\ ~ok

\* if __name__ == "__main__": get_model()  # warm up on startup
MainWarm(p, ok) ==
    /\ Sent /\ started[p] = "no"
    /\ GetModelAt(p, ok)
    /\ started' = [started EXCEPT ![p] = IF LoadRaises(p, ok) THEN "failed" ELSE "main"]
    /\ UNCHANGED <<loop, reg, req, obs, fs>>

\* the startup hook, run by the server before it accepts a request:
\* get_model()  # warm up
StartupWarm(p, ok) ==
    /\ Sent /\ started[p] \in {"no", "main"}
    /\ CanRun(p)
    /\ GetModelAt(p, ok)
    /\ started' = [started EXCEPT ![p] = IF LoadRaises(p, ok) THEN "failed" ELSE "warm"]
    /\ loop' = [loop EXCEPT ![p] = IF LoadRaises(p, ok) THEN @ ELSE "startup"]
    /\ UNCHANGED <<reg, req, obs, fs>>

\* await register_service()
StartupRegister(p, url, key, post) ==
    LET out == register_service(url, key, post) IN
    /\ Sent /\ started[p] = "warm"
    /\ reg' = [reg EXCEPT ![p] = [env |-> Some(<<url, key>>),
                                  post |-> IF out.sent THEN post ELSE "none",
                                  sent |-> out.sent]]
    /\ started' = [started EXCEPT ![p] = IF out.raised THEN "failed" ELSE "done"]
    /\ loop' = [loop EXCEPT ![p] = "free"]
    /\ UNCHANGED <<_model, constructed, req, obs, fs>>

----------------------------------------------------------------------------
(* Inputs *)

VideoId(n) == [i \in 1..n |-> "a"]
VideoIds == {VideoId(n) : n \in {0, VideoIdLen - 1, VideoIdLen, VideoIdLen + 1}}

FileNames == {<<"audio", "webm">>, <<"audio", "part">>, <<"thumb", "jpg">>}
Sizes == {MinAudioBytes - 1, MinAudioBytes, MinAudioBytes + 1}
Listings == UNION {[N -> Sizes] : N \in SUBSET FileNames}

Stderrs == {Text(n) : n \in {0, StderrLimit - 1, StderrLimit, StderrLimit + 1}}
Stdouts == {Text(n) : n \in {0, StdoutLimit + 1}}

Outcome(t, rc, err, out, files) ==
    [timeout |-> t, returncode |-> rc, stderr |-> err, stdout |-> out, files |-> files]

DownloadOutcomes ==
    {Outcome(TRUE, 0, <<>>, <<>>, l) : l \in Listings}
    \cup {Outcome(FALSE, 1, e, <<>>, l) : e \in Stderrs, l \in Listings}
    \cup {Outcome(FALSE, 0, <<>>, s, l) : s \in Stdouts, l \in Listings}

OneAudio(size) == [n \in {<<"audio", "webm">>} |-> size]

FewOutcomes ==
    {Outcome(TRUE, 0, <<>>, <<>>, EmptyListing),
     Outcome(FALSE, 1, Text(StderrLimit + 1), <<>>, OneAudio(MinAudioBytes)),
     Outcome(FALSE, 0, <<>>, <<>>, EmptyListing),
     Outcome(FALSE, 0, <<>>, <<>>, OneAudio(MinAudioBytes - 1)),
     Outcome(FALSE, 0, <<>>, <<>>, OneAudio(MinAudioBytes))}

WordTexts == {<<" ">>, <<" ", "a", " ">>, <<"b">>}
WordLists == SeqsUpTo(WordTexts, MaxWords)
Segment(ws) == [text |-> <<" ", "a", " ">>, words |-> ws]
Segments == {Segment(None)} \cup {Segment(Some(ws)) : ws \in WordLists}

Result(raises, segs, boom) ==
    [raises |-> raises, segs |-> segs, boom |-> boom, duration |-> 61]

EngineResults ==
    {Result(TRUE, <<>>, FALSE), Result(FALSE, <<>>, TRUE)}
    \cup {Result(FALSE, ss, FALSE) : ss \in SeqsUpTo(Segments, MaxSegs)}

FewResults ==
    {Result(TRUE, <<>>, FALSE),
     Result(FALSE, <<Segment(Some(<<<<" ">>, <<"b">>>>))>>, TRUE),
     Result(FALSE, <<Segment(Some(<<<<" ">>, <<"b">>>>))>>, FALSE)}

EnvValues == {None, Some(<<>>), Some(<<"x">>)}
PostOutcomes == {"ok", "network", "auth", "timeout"}

\* several workers, few inputs
Concurrent ==
    [procs |-> Procs, slots |-> Slots, dirs |-> {"whisperx-a", "whisperx-b"},
     vids |-> {VideoId(VideoIdLen), VideoId(VideoIdLen - 1)},
     outcomes |-> FewOutcomes, results |-> FewResults,
     envs |-> {Some(<<"x">>)}, posts |-> {"timeout"}]

\* one worker, every downloader outcome
Fetching ==
    [procs |-> {"w1"}, slots |-> {1}, dirs |-> {"whisperx-a"},
     vids |-> VideoIds,
     outcomes |-> DownloadOutcomes, results |-> FewResults,
     envs |-> EnvValues, posts |-> PostOutcomes]

\* one worker, every engine result
Shaping ==
    [procs |-> {"w1"}, slots |-> {1}, dirs |-> {"whisperx-a"},
     vids |-> {VideoId(VideoIdLen), VideoId(0)},
     outcomes |-> FewOutcomes, results |-> EngineResults,
     envs |-> {Some(<<"x">>)}, posts |-> {"timeout"}]

----------------------------------------------------------------------------
(* Specifications *)

Step(in) ==
    \/ \E r \in in.slots, p \in in.procs, v \in in.vids : Arrive(r, p, v)
    \/ \E r \in in.slots : TranscribeInvalid(r)
    \/ \E r \in in.slots, d \in in.dirs : TranscribeMkdtemp(r, d)
    \/ \E r \in in.slots : DownloadTimeout(r, in.outcomes)
    \/ \E r \in in.slots : DownloadFailed(r, in.outcomes)
    \/ \E r \in in.slots : NoAudioFile(r, in.outcomes)
    \/ \E r \in in.slots : AudioTooSmall(r, in.outcomes)
    \/ \E r \in in.slots : DownloadOk(r, in.outcomes)
    \/ \E r \in in.slots : GetModelCached(r)
    \/ \E r \in in.slots : GetModelObserve(r)
    \/ \E r \in in.slots : GetModelLoad(r)
    \/ \E r \in in.slots : GetModelLoadFails(r)
    \/ \E r \in in.slots : CallEngine(r, in.results)
    \/ \E r \in in.slots : CallEngineRaises(r, in.results)
    \/ \E r \in in.slots : NextSegment(r)
    \/ \E r \in in.slots : StreamRaises(r)
    \/ \E r \in in.slots : ReturnOk(r)
    \/ \E r \in in.slots : Respond(r)
    \/ \E p \in in.procs : health(p)
    \/ \E p \in in.procs, ok \in BOOLEAN : MainWarm(p, ok)
    \/ \E p \in in.procs, ok \in BOOLEAN : StartupWarm(p, ok)
    \/ \E p \in in.procs, url \in in.envs, key \in in.envs, post \in in.posts :
          StartupRegister(p, url, key, post)

Next == Step(Concurrent)
Spec == Init /\ [][Next]_vars

NextFetch == Step(Fetching)
SpecFetch == Init /\ [][NextFetch]_vars

NextShape == Step(Shaping)
SpecShape == Init /\ [][NextShape]_vars

----------------------------------------------------------------------------
(* Properties *)

Done(r) == req[r].pc = "done"
IsPrefix(a, b) == Len(a) <= Len(b) /\ \A i \in 1..Len(a) : a[i] = b[i]

\* C1: when a request that created a temporary directory gets its response
\* (200, 502 or 500), the directory does not exist: at the step that ends
\* the handler, the directory the handler created is gone.
C1_TempDirRemoved ==
    [][\A r \in Slots :
          (req[r].pc # "done" /\ req'[r].pc = "done" /\ obs'[r].dirCreated)
             => ~Exists(fs', req[r].tmpdir[1])]_vars

\* C1 witness: an engine exception in the segment stream ended a request
\* that had created its directory, and the directory is gone.
C1_Witness ==
    \E r \in Slots :
        /\ Done(r) /\ obs[r].dirCreated
        /\ req[r].response.status = 500
        /\ obs[r].raised = Some(Exception("decoding failed"))
        /\ \A d \in DirNames : ~Exists(fs, d)

\* C2: a video_id that is empty or not 11 characters long is answered 400,
\* and in that request no directory is created, the downloader is not
\* started and the engine is not invoked.
C2_InvalidIdRejected ==
    \A r \in Slots :
        (req[r].pc # "idle" /\ Len(req[r].vid) # 11) =>
            /\ req[r].pc \in {"pending", "done"}
            /\ Done(r) => req[r].response.status = 400
            /\ req[r].tmpdir = None
            /\ ~obs[r].dirCreated
            /\ ~obs[r].downloaderStarted
            /\ ~obs[r].engineInvoked

\* C2 witness: a 10-character identifier was answered 400.
C2_Witness ==
    \E r \in Slots :
        Done(r) /\ Len(req[r].vid) = 10 /\ req[r].response.status = 400

\* C3 as claimed: the file handed to the engine exists in the request's
\* directory and is strictly larger than 1000 bytes.
C3_HandedOver1000 ==
    \A r \in Slots :
        obs[r].handed # None =>
            obs[r].handed[1].exists /\ obs[r].handed[1].size > 1000

\* C3 amended: the file handed to the engine exists in the request's
\* directory and has at least 1000 bytes; a smaller file never reaches it.
C3_HandedAtLeast1000 ==
    \A r \in Slots :
        obs[r].handed # None =>
            obs[r].handed[1].exists /\ obs[r].handed[1].size >= 1000

\* C3 witness: a file of exactly 1000 bytes was handed to the engine.
C3_Witness ==
    \E r \in Slots :
        /\ obs[r].handed # None
        /\ obs[r].handed[1].exists
        /\ obs[r].handed[1].size = 1000

\* C4: a non-zero downloader exit gives 502 "Audio download failed" with a
\* prefix of the error stream of at most 300 characters, whatever files the
\* downloader left.
C4_DownloadFailed502 ==
    \A r \in Slots :
        (Done(r) /\ obs[r].dl # None /\ ~obs[r].dl[1].timeout
                 /\ obs[r].dl[1].returncode # 0) =>
            /\ req[r].response.status = 502
            /\ req[r].response.msg = "Audio download failed: "
            /\ IsPrefix(req[r].response.arg, obs[r].dl[1].stderr)
            /\ Len(req[r].response.arg) <= 300

\* C4 witness: the downloader exited non-zero with more than 300 characters
\* of error stream and left a valid audio file; the answer is 502.
C4_Witness ==
    \E r \in Slots :
        /\ Done(r) /\ obs[r].dl # None
        /\ obs[r].dl[1].returncode # 0
        /\ Len(obs[r].dl[1].stderr) > 300
        /\ <<"audio", "webm">> \in DOMAIN obs[r].dl[1].files
        /\ obs[r].dl[1].files[<<"audio", "webm">>] > 1000
        /\ req[r].response.status = 502
        /\ Len(req[r].response.arg) = 300

\* C5: an exception raised inside the try block that is not an HTTPException
\* is answered 500 with the exception's string; an HTTPException raised
\* there keeps its status 502.
C5_ErrorMapping ==
    \A r \in Slots :
        (Done(r) /\ obs[r].raised # None) =>
            /\ obs[r].raised[1].type # "HTTPException" =>
                  /\ req[r].response.status = 500
                  /\ req[r].response.msg = obs[r].raised[1].msg
            /\ obs[r].raised[1].type = "HTTPException" =>
                  /\ obs[r].raised[1].status = 502
                  /\ req[r].response.status = 502

\* C5 witness: the engine failed to load inside a request; the answer is 500.
C5_Witness ==
    \E r \in Slots :
        /\ Done(r) /\ obs[r].sawNone
        /\ obs[r].raised = Some(Exception("model load failed"))
        /\ req[r].response.status = 500

\* C6: per process the model is constructed at most once; a loaded handle
\* is never reset or replaced, and no step taken while it is loaded
\* constructs.
C6_LoadedOnce ==
    [][\A p \in Procs :
          /\ constructed'[p] <= 1
          /\ _model[p] # None =>
                (_model'[p] = _model[p] /\ constructed'[p] = constructed[p])]_vars

\* C6 witness: a request got the model from get_model without observing
\* None and without constructing.
C6_Witness ==
    \E r \in Slots :
        /\ obs[r].engineInvoked /\ ~obs[r].sawNone /\ ~obs[r].built
        /\ constructed[Proc(r)] = 1
        /\ _model[Proc(r)] = Some(1)

C8_RegisterNeverFails ==
    \A p \in Procs :
        /\ started[p] = "failed" => (reg[p].env = None /\ _model[p] = None)
        /\ reg[p].env # None =>
              /\ started[p] = "done"
              /\ (reg[p].env[1][1] = None \/ reg[p].env[1][2] = None) => ~reg[p].sent

\* C8 witness: both credentials set, the POST was sent and failed on the
\* network, and startup completed.
C8_Witness ==
    \E p \in Procs :
        /\ started[p] = "done"
        /\ reg[p].sent /\ reg[p].post = "network"

Blank(w) == \A k \in 1..Len(w) : w[k] = " "
NotBlank(w) == ~Blank(w)
Spaces(n) == [k \in 1..n |-> " "]

\* t is w without its leading and trailing spaces
IsTrimOf(t, w) ==
    /\ t # <<>> => (t[1] # " " /\ t[Len(t)] # " ")
    /\ \E a \in 0..Len(w), b \in 0..Len(w) : w = Spaces(a) \o t \o Spaces(b)

EngineWords(s) == IF s.words = None THEN <<>> ELSE s.words[1]
OutWords(o) == IF "words" \in DOMAIN o THEN o.words ELSE <<>>

\* C9: in a 200 response there is one output segment per engine segment, in
\* order, and the words of segment i are the engine's words of segment i
\* that do not trim to empty, trimmed, in the engine's order.
C9_WordsFiltered ==
    \A r \in Slots :
        (Done(r) /\ req[r].response.status = 200) =>
            LET src == obs[r].engineOut[1]
                out == req[r].response.segments IN
            /\ Len(out) = Len(src)
            /\ \A i \in 1..Len(src) :
                  LET kept == SelectSeq(EngineWords(src[i]), NotBlank)
                      got == OutWords(out[i]) IN
                  /\ Len(got) = Len(kept)
                  /\ Len(got) <= Len(EngineWords(src[i]))
                  /\ \A j \in 1..Len(got) :
                        /\ got[j].text # <<>>
                        /\ IsTrimOf(got[j].text, kept[j])

\* C9 witness: a 200 response with two segments, one of which lost a
\* whitespace-only word and kept another.
C9_Witness ==
    \E r \in Slots :
        /\ Done(r) /\ req[r].response.status = 200
        /\ Len(req[r].response.segments) = 2
        /\ \E i \in 1..2 :
              /\ Len(OutWords(req[r].response.segments[i])) = 1
              /\ Len(EngineWords(obs[r].engineOut[1][i])) = 2

\* C10: two requests in flight never have the same directory, and the
\* directory and audio file of a request in flight exist, whatever the other
\* requests create or clean up.
C10_DirsNotShared ==
    \A r1 \in Slots :
        InFlight(r1) =>
            /\ Exists(fs, Dir(r1))
            /\ req[r1].audio_path # None =>
                  req[r1].audio_path[1] \in DOMAIN Listing(fs, Dir(r1))
            /\ \A r2 \in Slots \ {r1} : InFlight(r2) => Dir(r2) # Dir(r1)

\* C10 witness: a request cleaned up while another was in flight, and that
\* other request still has its directory and its audio file.
C10_Witness ==
    \E r1 \in Slots, r2 \in Slots :
        /\ r1 # r2 /\ Done(r1) /\ obs[r1].dirCreated
        /\ InFlight(r2) /\ Dir(r2) \in obs[r1].beside
        /\ \A d \in DirNames \ {Dir(r2)} : ~Exists(fs, d)
        /\ req[r2].audio_path # None
        /\ req[r2].audio_path[1] \in DOMAIN Listing(fs, Dir(r2))

====
